---- MODULE Spec2Model ----
(***************************************************************************)
(* HurayraXpress server: the express routes of the full variant of the     *)
(* server (auth gate, parcel/rider/user handlers, payment-intent creation  *)
(* and the two-write payment workflow) over the four store collections.    *)
(*                                                                         *)
(* Every request is a cooperatively scheduled task.  A task runs without   *)
(* interruption from one await to the next, so one action of the model is  *)
(* the completion of the awaited external call (identity verifier, store,  *)
(* gateway) together with the handler code that follows it up to the next  *)
(* await or to the response.                                               *)
(*                                                                         *)
(* Spec and SpecFault serve every route, one request at a time; SpecConc   *)
(* and SpecConcFault serve the routes that write parcels and payments with *)
(* MaxReqs requests in flight.  In the Fault variants store calls may      *)
(* throw.                                                                  *)
(***************************************************************************)
EXTENDS Integers, Sequences, FiniteSets, TLC

VARIABLES parcels, nextId, payments, users, riders, reqs

vars == <<parcels, nextId, payments, users, riders, reqs>>
store == <<parcels, nextId, payments, users, riders>>

(* ------------------------------ bounds --------------------------------- *)
MaxReqs == 2        \* requests in flight at the same time
MaxParcels == 2     \* parcels ever inserted
MaxDocs == 1        \* users / riders ever inserted
MaxTime == 2        \* distinct createdAt timestamps
MaxPaidAt == 1      \* distinct values of new Date() in paymentDoc

MaxPayments == MaxParcels + 1

Reqs == 1..MaxReqs
Times == 1..MaxTime
PaidTimes == 1..MaxPaidAt
Emails == {"a@x", "b@x"}
PayerEmails == {"a@x"}

(* ------------------------- values of the inputs ------------------------ *)
Undefined == "undefined"          \* a missing query parameter / token
QueryEmails == Emails \cup {Undefined, ""}

\* The Authorization header as the list of its parts between spaces.
NoHeader == <<>>
Headers == {NoHeader, <<"Bearer">>, <<"Bearer", "">>,
            <<"Bearer", "good">>, <<"Bearer", "expired">>}
ValidTokens == {"good"}           \* tokens the identity verifier accepts

\* Identifier strings: 1..MaxParcels are well-formed 24-hex strings (the
\* k-th one is the identifier the store assigns to the k-th parcel),
\* MalformedId is a string that is not an ObjectId.
MalformedId == -1
NoId == 0
IdInputs == (1..MaxParcels) \cup {MalformedId}

NoResponse == 0                   \* the request is never answered

(* ------------------------------ routes --------------------------------- *)
UploadImage == "POST /upload-image"
PostUsers == "POST /users"
PostParcels == "POST /parcels"
GetParcels == "GET /parcels"
GetParcel == "GET /parcels/:id"
DeleteParcelRoute == "DELETE /parcels/:id"
PostRiders == "POST /riders"
PostIntent == "POST /create-payment-intent"
PostPayments == "POST /payments"
GetPayments == "GET /payments"
GetRoot == "GET /"

Routes == {UploadImage, PostUsers, PostParcels, GetParcels, GetParcel,
           DeleteParcelRoute, PostRiders, PostIntent, PostPayments,
           GetPayments, GetRoot}

\* Routes registered with verifyFBToken.
GatedRoutes == {PostParcels, GetParcels, GetParcel, DeleteParcelRoute,
                PostRiders, PostPayments, GetPayments}

Gated(route) == route \in GatedRoutes

\* Routes that write the parcels or the payments collection.
WriterRoutes == {PostParcels, DeleteParcelRoute, PostPayments}

\* Routes whose handler body is wrapped in try/catch.
TryRoutes == {PostIntent, PostPayments, GetPayments}

\* Routes whose handler builds an ObjectId from a request value.
IdRoutes == {GetParcel, DeleteParcelRoute, PostPayments}

\* Routes whose handler awaits a store call.
StoreRoutes == Routes \ {UploadImage, PostIntent, GetRoot}

(* ----------------------------- requests -------------------------------- *)
\* pc: "idle" (slot unused), "verify" (awaiting verifyIdToken), "store"
\* (awaiting the handler's first external call), "insert" (POST /payments
\* awaiting paymentsCollection.insertOne), "done" (answered or abandoned).
\* awaits: external calls of the handler that have returned normally.
Blank ==
  [route |-> GetRoot, pc |-> "idle", hdr |-> NoHeader, id |-> NoId,
   email |-> Undefined, createdAt |-> 0, payment_status |-> "unpaid",
   paid_at |-> 0, file |-> FALSE, status |-> NoResponse, result |-> <<>>,
   awaits |-> 0]

\* The answered request: its request line and Authorization header (route,
\* :id or parcelId, ?email), the status and the body of the response.
Respond(q, st, res) ==
  [Blank EXCEPT !.pc = "done", !.route = q.route, !.hdr = q.hdr, !.id = q.id,
                !.email = IF q.route \in {GetParcels, GetPayments} THEN q.email ELSE Undefined,
                !.awaits = q.awaits, !.status = st, !.result = res]

\* A promise rejection nobody handles: express 4 never answers (or the
\* process dies), express 5 answers 500 through its default error handler.
UnhandledOutcomes == {NoResponse, 500}

(* --------------------------- pure functions ---------------------------- *)
\* JavaScript truthiness of a string-or-undefined value.
Truthy(v) == v \notin {Undefined, ""}

\* authHeader.split(' ')[1]
Token(h) == IF Len(h) >= 2 THEN h[2] ELSE Undefined

\* new ObjectId(x) throws unless x is a well-formed identifier string.
ObjectIdThrows(x) == x < 0

\* Mutant: the count of matched instead of modified documents.
ModifiedCount_Matched(ps, id) == IF id \in DOMAIN ps THEN 1 ELSE 0

\* updateOne({_id}, {$set: {payment_status: 'paid'}}).modifiedCount
ModifiedCount(ps, id) ==
  IF id \in DOMAIN ps /\ ps[id].payment_status # "paid" THEN 1 ELSE 0

\* Mutant: the update writes another status.
SetPaid_Pending(doc) == [doc EXCEPT !.payment_status = "pending"]

\* The document after $set: {payment_status: 'paid'}.
SetPaid(doc) == [doc EXCEPT !.payment_status = "paid"]

\* Mutant: the update is not written.
UpdateOne_NoWrite(ps, id) == ps

\* The parcels collection after updateOne.
UpdateOne(ps, id) ==
  IF id \in DOMAIN ps THEN [ps EXCEPT ![id] = SetPaid(ps[id])] ELSE ps

\* deleteOne({_id}).deletedCount
DeletedCount(ps, id) == IF id \in DOMAIN ps THEN 1 ELSE 0

\* The parcels collection after deleteOne.
DeleteOne(ps, id) == [k \in DOMAIN ps \ {id} |-> ps[k]]

\* Mutant: deleting a parcel also deletes its payment records.
PaymentsAfterDelete_Cascade(pays, id) ==
  LET keep(d) == d.parcelId # id IN SelectSeq(pays, keep)

\* The payments collection after deleteOne on parcels: untouched.
PaymentsAfterDelete(pays, id) == pays

\* Mutant: the insert replaces the documents already stored.
InsertOne_Reset(ps, id, doc) == [k \in DOMAIN ps \cup {id} |-> doc]

\* The parcels collection after insertOne of a new document.
InsertOne(ps, id, doc) == [k \in DOMAIN ps \cup {id} |-> IF k = id THEN doc ELSE ps[k]]

\* The payments collection after insertOne.
InsertPayment(pays, doc) == Append(pays, doc)

\* Mutant: the email filter is dropped.
ParcelMatches_All(userEmail, doc) == TRUE

\* query = userEmail ? { created_by: userEmail } : {} applied to a parcel.
ParcelMatches(userEmail, doc) ==
  IF Truthy(userEmail) THEN doc.created_by = userEmail ELSE TRUE

\* query = userEmail ? { email: userEmail } : {} applied to a payment.
PaymentMatches(userEmail, doc) ==
  IF Truthy(userEmail) THEN doc.email = userEmail ELSE TRUE

\* sort: { key: -1 } between two neighbours of the result.
DescendingOrder(a, b) == a >= b

\* All orders of the set S (sequences without repetition) that respect
\* the sort on key[_]; documents with equal keys come in any order.
SortedListings(S, key) ==
  {s \in [1..Cardinality(S) -> S] :
     /\ \A i, j \in 1..Cardinality(S) : i # j => s[i] # s[j]
     /\ \A i \in 1..(Cardinality(S) - 1) : DescendingOrder(key[s[i]], key[s[i + 1]])}

\* parcelsCollection.find(query, {sort: {createdAt: -1}}).toArray(), as ids.
FindParcelsResults(ps, userEmail) ==
  SortedListings({k \in DOMAIN ps : ParcelMatches(userEmail, ps[k])},
                 [k \in DOMAIN ps |-> ps[k].createdAt])

\* paymentsCollection.find(query, {sort: {paid_at: -1}}).toArray(), as
\* positions in the collection.
FindPaymentsResults(pays, userEmail) ==
  SortedListings({k \in 1..Len(pays) : PaymentMatches(userEmail, pays[k])},
                 [k \in 1..Len(pays) |-> pays[k].paid_at])

\* paymentDoc of POST /payments.
PaymentDoc(q) ==
  [parcelId |-> q.id, email |-> q.email, amount |-> 100,
   paymentMethod |-> "card", transactionId |-> "txn", paid_at |-> q.paid_at]

(* ------------------------------ auth gate ------------------------------ *)
\* verifyFBToken up to its await: 401 without a header or without a token
\* part, otherwise the token is handed to the identity verifier.
verifyFBToken(q) ==
  IF q.hdr = NoHeader THEN Respond(q, 401, <<>>)
  ELSE IF ~Truthy(Token(q.hdr)) THEN Respond(q, 401, <<>>)
  ELSE [q EXCEPT !.pc = "verify"]

\* Mutant: next() is called whatever the verifier says.
GateAdmits_Always(tokenAccepted) == TRUE

\* What the gate does when verifyIdToken settles: next() or 403.
GateAdmits(tokenAccepted) == tokenAccepted

\* The handler from its first statement to its first await.  u is the
\* outcome of an unhandled rejection.
HandlerStart(q, u) ==
  CASE q.route = GetRoot -> Respond(q, 200, <<>>)
    [] q.route = UploadImage ->
         IF q.file THEN Respond(q, 200, <<>>) ELSE Respond(q, 400, <<>>)
    [] q.route \in IdRoutes /\ ObjectIdThrows(q.id) ->
         IF q.route \in TryRoutes THEN Respond(q, 500, <<>>)
                                  ELSE Respond(q, u, <<>>)
    [] OTHER -> [q EXCEPT !.pc = "store"]

(* ------------------------------- inputs -------------------------------- *)
\* The request values a route reads; everything else stays blank.
Inputs(route) ==
  CASE route = UploadImage -> {[Blank EXCEPT !.file = f] : f \in BOOLEAN}
    [] route = PostParcels ->
         {[Blank EXCEPT !.email = e, !.createdAt = t, !.payment_status = s] :
            e \in Emails, t \in Times, s \in {"unpaid", "paid"}}
    [] route \in {GetParcels, GetPayments} ->
         {[Blank EXCEPT !.email = e] : e \in QueryEmails}
    [] route \in {GetParcel, DeleteParcelRoute} ->
         {[Blank EXCEPT !.id = i] : i \in IdInputs}
    [] route = PostPayments ->
         {[Blank EXCEPT !.id = i, !.email = e] : i \in IdInputs, e \in PayerEmails}
    [] OTHER -> {Blank}

HeadersOf(route) == IF Gated(route) THEN Headers ELSE {NoHeader}

Pending(route) == Cardinality({r \in Reqs : reqs[r].route = route /\ reqs[r].pc \notin {"idle", "done"}})

\* Caps on the growth of the collections.
CanAccept(route) ==
  CASE route = PostParcels -> nextId + Pending(PostParcels) < MaxParcels
    [] route = PostUsers -> Len(users) + Pending(PostUsers) < MaxDocs
    [] route = PostRiders -> Len(riders) + Pending(PostRiders) < MaxDocs
    [] route = PostPayments -> Len(payments) + Pending(PostPayments) < MaxPayments
    [] OTHER -> TRUE

(* ------------------------------- actions ------------------------------- *)
Init ==
  /\ parcels = <<>>
  /\ nextId = 0
  /\ payments = <<>>
  /\ users = <<>>
  /\ riders = <<>>
  /\ reqs = [r \in Reqs |-> Blank]

\* The handler starts on request q: it reads the request values in and
\* runs to its first await.
StartHandler(q, in, u) == HandlerStart([in EXCEPT !.route = q.route, !.hdr = q.hdr], u)

\* A request for one of the routes in rs arrives on a free slot and runs to
\* its first await: the verifier call of the gate, or the handler's call.
Arrive(r, rs) ==
  /\ reqs[r].pc \in {"idle", "done"}
  /\ \E route \in rs :
       /\ CanAccept(route)
       /\ \E h \in HeadersOf(route) :
            LET q == [Blank EXCEPT !.route = route, !.hdr = h]
            IN IF Gated(route)
               THEN reqs' = [reqs EXCEPT ![r] = verifyFBToken(q)]
               ELSE \E in \in Inputs(route), u \in UnhandledOutcomes :
                      reqs' = [reqs EXCEPT ![r] = StartHandler(q, in, u)]
  /\ UNCHANGED store

\* verifyIdToken resolves: req.decoded is set and next() runs the handler.
VerifyAccept(r) ==
  /\ reqs[r].pc = "verify"
  /\ Token(reqs[r].hdr) \in ValidTokens
  /\ \E in \in Inputs(reqs[r].route), u \in UnhandledOutcomes :
       reqs' = [reqs EXCEPT ![r] =
                  IF GateAdmits(TRUE) THEN StartHandler(reqs[r], in, u)
                                      ELSE Respond(reqs[r], 403, <<>>)]
  /\ UNCHANGED store

\* verifyIdToken rejects: 403.
VerifyReject(r) ==
  /\ reqs[r].pc = "verify"
  /\ Token(reqs[r].hdr) \notin ValidTokens
  /\ \E in \in Inputs(reqs[r].route), u \in UnhandledOutcomes :
       reqs' = [reqs EXCEPT ![r] =
                  IF GateAdmits(FALSE) THEN StartHandler(reqs[r], in, u)
                                       ELSE Respond(reqs[r], 403, <<>>)]
  /\ UNCHANGED store

AtStore(r, route) == reqs[r].pc = "store" /\ reqs[r].route = route

\* POST /users
InsertUser(r) ==
  /\ AtStore(r, PostUsers)
  /\ users' = Append(users, "profile")
  /\ reqs' = [reqs EXCEPT ![r] = Respond([@ EXCEPT !.awaits = 1], 201, <<Len(users) + 1>>)]
  /\ UNCHANGED <<parcels, nextId, payments, riders>>

\* POST /parcels
InsertParcel(r) ==
  /\ AtStore(r, PostParcels)
  /\ nextId' = nextId + 1
  /\ parcels' = InsertOne(parcels, nextId + 1,
                          [created_by |-> reqs[r].email,
                           createdAt |-> reqs[r].createdAt,
                           payment_status |-> reqs[r].payment_status])
  /\ reqs' = [reqs EXCEPT ![r] = Respond([@ EXCEPT !.awaits = 1], 201, <<nextId + 1>>)]
  /\ UNCHANGED <<payments, users, riders>>

\* GET /parcels
FindParcels(r) ==
  /\ AtStore(r, GetParcels)
  /\ \E res \in FindParcelsResults(parcels, reqs[r].email) :
       reqs' = [reqs EXCEPT ![r] = Respond([@ EXCEPT !.awaits = 1], 200, res)]
  /\ UNCHANGED store

\* GET /parcels/:id
FindOneParcel(r) ==
  /\ AtStore(r, GetParcel)
  /\ reqs' = [reqs EXCEPT ![r] =
                IF reqs[r].id \in DOMAIN parcels
                THEN Respond([@ EXCEPT !.awaits = 1], 200, <<reqs[r].id>>)
                ELSE Respond([@ EXCEPT !.awaits = 1], 404, <<>>)]
  /\ UNCHANGED store

\* DELETE /parcels/:id
DeleteParcel(r) ==
  /\ AtStore(r, DeleteParcelRoute)
  /\ parcels' = DeleteOne(parcels, reqs[r].id)
  /\ payments' = PaymentsAfterDelete(payments, reqs[r].id)
  /\ reqs' = [reqs EXCEPT ![r] =
                Respond([@ EXCEPT !.awaits = 1], 200, <<DeletedCount(parcels, reqs[r].id)>>)]
  /\ UNCHANGED <<nextId, users, riders>>

\* POST /riders
InsertRider(r) ==
  /\ AtStore(r, PostRiders)
  /\ riders' = Append(riders, "application")
  /\ reqs' = [reqs EXCEPT ![r] = Respond([@ EXCEPT !.awaits = 1], 200, <<Len(riders) + 1>>)]
  /\ UNCHANGED <<parcels, nextId, payments, users>>

\* POST /create-payment-intent: the gateway returns an intent, or throws.
CreatePaymentIntent(r) ==
  /\ AtStore(r, PostIntent)
  /\ \E ok \in BOOLEAN :
       reqs' = [reqs EXCEPT ![r] =
                  IF ok THEN Respond([@ EXCEPT !.awaits = 1], 200, <<>>)
                        ELSE Respond(@, 500, <<>>)]
  /\ UNCHANGED store

\* POST /payments, first write: updateOne, the modifiedCount check, and the
\* construction of paymentDoc (new Date()).
PaymentUpdate(r) ==
  /\ AtStore(r, PostPayments)
  /\ parcels' = UpdateOne(parcels, reqs[r].id)
  /\ \E t \in PaidTimes :
       reqs' = [reqs EXCEPT ![r] =
                  IF ModifiedCount(parcels, reqs[r].id) = 0
                  THEN Respond([@ EXCEPT !.awaits = 1], 404, <<>>)
                  ELSE [@ EXCEPT !.awaits = 1, !.pc = "insert", !.paid_at = t]]
  /\ UNCHANGED <<nextId, payments, users, riders>>

\* POST /payments, second write: insertOne and the 201 response.
PaymentInsert(r) ==
  /\ reqs[r].pc = "insert"
  /\ payments' = InsertPayment(payments, PaymentDoc(reqs[r]))
  /\ reqs' = [reqs EXCEPT ![r] = Respond([@ EXCEPT !.awaits = 2], 201, <<Len(payments) + 1>>)]
  /\ UNCHANGED <<parcels, nextId, users, riders>>

\* GET /payments
FindPayments(r) ==
  /\ AtStore(r, GetPayments)
  /\ \E res \in FindPaymentsResults(payments, reqs[r].email) :
       reqs' = [reqs EXCEPT ![r] = Respond([@ EXCEPT !.awaits = 1], 200, res)]
  /\ UNCHANGED store

\* Mutant: a failed insert of POST /payments sets the parcel back to unpaid.
StoreFault_Compensates(r) ==
  /\ reqs[r].pc \in {"store", "insert"}
  /\ reqs[r].route \in StoreRoutes
  /\ reqs' = [reqs EXCEPT ![r] = Respond(@, 500, <<>>)]
  /\ parcels' = IF reqs[r].pc = "insert" /\ reqs[r].id \in DOMAIN parcels
                THEN [parcels EXCEPT ![reqs[r].id].payment_status = "unpaid"]
                ELSE parcels
  /\ UNCHANGED <<nextId, payments, users, riders>>

\* An awaited store call throws: the catch block answers 500 where the
\* handler has one, otherwise the rejection is unhandled.
StoreFault(r) ==
  /\ reqs[r].pc \in {"store", "insert"}
  /\ reqs[r].route \in StoreRoutes
  /\ \E u \in UnhandledOutcomes :
       reqs' = [reqs EXCEPT ![r] =
                  IF reqs[r].route \in TryRoutes THEN Respond(@, 500, <<>>)
                                                 ELSE Respond(@, u, <<>>)]
  /\ UNCHANGED store

Handlers(r) ==
  \/ VerifyAccept(r)
  \/ VerifyReject(r)
  \/ InsertUser(r)
  \/ InsertParcel(r)
  \/ FindParcels(r)
  \/ FindOneParcel(r)
  \/ DeleteParcel(r)
  \/ InsertRider(r)
  \/ CreatePaymentIntent(r)
  \/ PaymentUpdate(r)
  \/ PaymentInsert(r)
  \/ FindPayments(r)

Writers(r) ==
  \/ VerifyAccept(r)
  \/ VerifyReject(r)
  \/ InsertParcel(r)
  \/ DeleteParcel(r)
  \/ PaymentUpdate(r)
  \/ PaymentInsert(r)

\* Every route, one request at a time.
Next == Arrive(1, Routes) \/ Handlers(1)

Spec == Init /\ [][Next]_vars

\* Every route, one request at a time, store calls may throw.
NextFault == Arrive(1, Routes) \/ Handlers(1) \/ StoreFault(1)

SpecFault == Init /\ [][NextFault]_vars

\* The routes that write parcels and payments, MaxReqs requests in flight.
NextConc == \E r \in Reqs : Arrive(r, WriterRoutes) \/ Writers(r)

SpecConc == Init /\ [][NextConc]_vars

\* The same, store calls may throw.
NextConcFault == \E r \in Reqs : Arrive(r, WriterRoutes) \/ Writers(r) \/ StoreFault(r)

SpecConcFault == Init /\ [][NextConcFault]_vars

(* ======================================================================= *)
(*                                 claims                                  *)
(* ======================================================================= *)
RecordsFor(p) == {k \in 1..Len(payments) : payments[k].parcelId = p}
RecordsForNext(p) == {k \in 1..Len(payments') : payments'[k].parcelId = p}
Inserting(p) == {r \in Reqs : reqs[r].pc = "insert" /\ reqs[r].id = p}
WellFormedIds == 1..MaxParcels
Steps(r) == reqs'[r] # reqs[r]
InFlight(r) == reqs[r].pc \in {"verify", "store", "insert"}
\* The handler of r's route answers (or abandons) the request in this step.
HandlerEnds(r, route) ==
  /\ InFlight(r) /\ reqs'[r].pc = "done"
  /\ reqs'[r].route = route /\ reqs'[r].status \notin {401, 403}

\* C1: for an existing parcel that is not paid, the update of a POST
\* /payments marks it paid and lets the request go on to the insert, which
\* answers 201 and adds exactly one payment record for the parcel; once a
\* record for a parcelId exists (a first POST returned 201), every POST
\* /payments answered for that parcelId is answered 404 and adds no record.
C1_FirstPaymentThenRejected ==
  [][\A r \in Reqs :
       LET q == reqs[r]
           a == reqs'[r]
       IN /\ (q.route = PostPayments /\ q.pc = "store" /\ Steps(r)
              /\ q.id \in DOMAIN parcels /\ parcels[q.id].payment_status # "paid")
             => /\ a.pc = "insert"
                /\ parcels'[q.id].payment_status = "paid"
                /\ payments' = payments
          /\ (q.pc = "insert" /\ Steps(r))
             => /\ a.pc = "done" /\ a.status = 201
                /\ Len(payments') = Len(payments) + 1
                /\ SubSeq(payments', 1, Len(payments)) = payments
                /\ payments'[Len(payments')].parcelId = q.id
                /\ Cardinality(RecordsForNext(q.id)) = 1
          /\ (HandlerEnds(r, PostPayments) /\ a.id \in WellFormedIds
              /\ RecordsFor(a.id) # {})
             => /\ a.status = 404
                /\ payments' = payments]_vars

\* A second POST /payments for a parcel that has its payment record was
\* answered 404 while the parcel is still in the store.
C1_Witness ==
  \E r \in Reqs :
    /\ reqs[r].pc = "done" /\ reqs[r].route = PostPayments /\ reqs[r].status = 404
    /\ reqs[r].id \in DOMAIN parcels
    /\ Cardinality(RecordsFor(reqs[r].id)) = 1

\* C2 (as claimed): a POST /payments whose handler ran with a parcelId that
\* matches no parcel is answered 404 and leaves parcels and payments as
\* they were.
C2_UnknownParcelIs404 ==
  [][\A r \in Reqs :
       (HandlerEnds(r, PostPayments) /\ reqs[r].pc \in {"verify", "store"}
        /\ reqs'[r].id \notin DOMAIN parcels)
       => /\ reqs'[r].status = 404
          /\ parcels' = parcels
          /\ payments' = payments]_vars

\* C3: on a gated route a request without a header or without a token part
\* is answered 401 straight from its arrival (the verifier is never
\* awaited), a request whose token the verifier rejects is answered 403, in
\* both cases no handler call has returned and the step changes no
\* collection; a handler is running or has answered only for accepted tokens.
C3_GateInvariant ==
  \A r \in Reqs :
    LET q == reqs[r]
    IN (q.pc # "idle" /\ q.route \in GatedRoutes) =>
         /\ ~Truthy(Token(q.hdr)) => (q.pc = "done" /\ q.status = 401 /\ q.awaits = 0)
         /\ (Truthy(Token(q.hdr)) /\ Token(q.hdr) \notin ValidTokens)
            => (q.pc = "verify" \/ (q.pc = "done" /\ q.status = 403 /\ q.awaits = 0))
         /\ (q.pc \in {"store", "insert"} \/ (q.pc = "done" /\ q.status \notin {401, 403}))
            => Token(q.hdr) \in ValidTokens

C3_AuthGate ==
  /\ []C3_GateInvariant
  /\ [][\A r \in Reqs :
          (Steps(r) /\ reqs'[r].route \in GatedRoutes
           /\ Token(reqs'[r].hdr) \notin ValidTokens)
          => /\ UNCHANGED store
             /\ reqs'[r].pc \in {"verify", "done"}
             /\ reqs'[r].pc = "done" =>
                  reqs'[r].status = (IF Truthy(Token(reqs'[r].hdr)) THEN 403 ELSE 401)
             /\ reqs'[r].status = 401 => reqs[r].pc \in {"idle", "done"}]_vars

\* A gated request with a rejected token was answered 403.
C3_Witness ==
  \E r \in Reqs :
    /\ reqs[r].pc = "done" /\ reqs[r].status = 403
    /\ reqs[r].route = PostPayments /\ Token(reqs[r].hdr) = "expired"

\* C4: among concurrent POST /payments for one parcel at most one passes
\* the modifiedCount check (is awaiting the insert or has inserted), every
\* other one that the handler answered got 404, and the payments
\* collection never holds more than one record for the parcel.
C4_AtMostOnePaymentWins ==
  \A p \in WellFormedIds :
    /\ Cardinality(Inserting(p)) + Cardinality(RecordsFor(p)) <= 1
    /\ \A r \in Reqs :
         (reqs[r].pc = "done" /\ reqs[r].route = PostPayments /\ reqs[r].id = p)
         => /\ reqs[r].status \in {201, 404}
            /\ reqs[r].status = 201 => Cardinality(RecordsFor(p)) = 1

\* Two POST /payments for the same parcel are in flight: one has passed the
\* check and awaits its insert, the other's update is still on its way.
C4_Witness ==
  \E r1, r2 \in Reqs :
    /\ reqs[r1].pc = "insert" /\ reqs[r2].pc = "store"
    /\ reqs[r2].route = PostPayments /\ reqs[r2].id = reqs[r1].id
    /\ reqs[r1].id \in DOMAIN parcels

\* C5: GET /parcels?email=E answers 200 with exactly the parcels created by
\* E (all parcels when email is absent or empty), each once, in descending
\* createdAt, and changes no collection.
C5_ListingFilteredAndSorted ==
  [][\A r \in Reqs :
       (reqs[r].pc = "store" /\ reqs[r].route = GetParcels /\ Steps(r)) =>
         LET e == reqs[r].email
             res == reqs'[r].result
             want == IF e \in Emails THEN {k \in DOMAIN parcels : parcels[k].created_by = e}
                                     ELSE DOMAIN parcels
         IN /\ reqs'[r].pc = "done" /\ reqs'[r].status = 200
            /\ {res[i] : i \in 1..Len(res)} = want
            /\ Len(res) = Cardinality(want)
            /\ \A i, j \in 1..Len(res) :
                 i < j => parcels[res[i]].createdAt >= parcels[res[j]].createdAt
            /\ UNCHANGED store]_vars

\* A listing for a@x left out a parcel of another creator.
C5_Witness ==
  \E r \in Reqs :
    /\ reqs[r].pc = "done" /\ reqs[r].route = GetParcels /\ reqs[r].status = 200
    /\ reqs[r].email = "a@x" /\ Len(reqs[r].result) = 1
    /\ \E k \in DOMAIN parcels : parcels[k].created_by = "b@x"

\* C6 (as claimed): a DELETE /parcels/:id whose handler ran with an id that
\* matches no parcel is answered normally with deletedCount 0 and leaves
\* parcels and payments as they were; with an id that matches a parcel it
\* removes that parcel and no other.
C6_DeleteUnknownIsNormal ==
  [][\A r \in Reqs :
       HandlerEnds(r, DeleteParcelRoute) =>
         LET a == reqs'[r]
         IN IF a.id \notin DOMAIN parcels
            THEN /\ a.status = 200 /\ a.result = <<0>>
                 /\ parcels' = parcels /\ payments' = payments
            ELSE /\ a.status = 200 /\ a.result = <<1>>
                 /\ DOMAIN parcels' = DOMAIN parcels \ {a.id}
                 /\ \A k \in DOMAIN parcels' : parcels'[k] = parcels[k]
                 /\ payments' = payments]_vars

\* C7 (as claimed): every payment record references a parcel that is in the
\* store and paid.
C7_PaymentImpliesPaidParcelPresent ==
  \A k \in 1..Len(payments) :
    /\ payments[k].parcelId \in DOMAIN parcels
    /\ parcels[payments[k].parcelId].payment_status = "paid"

\* C7 (amended): every payment record, and every payment request that has
\* passed the modifiedCount check, references a parcel that is paid if it
\* is still in the store (it may have been deleted since).
C7_PaymentImpliesPaidUnlessDeleted ==
  /\ \A k \in 1..Len(payments) :
       payments[k].parcelId \in DOMAIN parcels
       => parcels[payments[k].parcelId].payment_status = "paid"
  /\ \A r \in Reqs :
       (reqs[r].pc = "insert" /\ reqs[r].id \in DOMAIN parcels)
       => parcels[reqs[r].id].payment_status = "paid"

\* Two payment records: the parcel of one is paid and in the store, the
\* parcel of the other has been deleted.
C7_Witness ==
  \E k1, k2 \in 1..Len(payments) :
    /\ payments[k1].parcelId \in DOMAIN parcels
    /\ parcels[payments[k1].parcelId].payment_status = "paid"
    /\ payments[k2].parcelId \notin DOMAIN parcels

\* No payment can be recorded for p any more: p was assigned, is paid if
\* still in the store, and no request awaits an insert for it.
Settled(p) ==
  /\ p <= nextId
  /\ p \in DOMAIN parcels => parcels[p].payment_status = "paid"
  /\ Inserting(p) = {}

\* C8: a store write of POST /payments that throws is answered 500 and
\* changes nothing; when it is the insert, the parcel stays paid without a
\* payment record; from then on every POST /payments for the parcel whose
\* update returns is answered 404 and no record for the parcel is ever
\* added.
C8_NoCompensation ==
  [][/\ \A r \in Reqs :
          LET q == reqs[r]
              a == reqs'[r]
          IN /\ (q.route = PostPayments /\ q.pc = "store" /\ a.pc = "done" /\ a.awaits = 0)
                => (a.status = 500 /\ UNCHANGED store)
             /\ (q.pc = "insert" /\ a.pc = "done" /\ a.awaits = 1)
                => /\ a.status = 500 /\ UNCHANGED store
                   /\ q.id \in DOMAIN parcels => parcels'[q.id].payment_status = "paid"
                   /\ Settled(q.id)'
             /\ (q.route = PostPayments /\ q.pc = "store" /\ a.awaits = 1 /\ Settled(q.id))
                => (a.pc = "done" /\ a.status = 404)
     /\ \A p \in WellFormedIds :
          Settled(p) => (Settled(p)' /\ RecordsForNext(p) = RecordsFor(p))]_vars

\* The insert of a payment threw: the parcel is paid, has no payment
\* record, and a later POST /payments for it is awaiting its update.
C8_Witness ==
  \E r1, r2 \in Reqs :
    /\ reqs[r1].pc = "done" /\ reqs[r1].route = PostPayments
    /\ reqs[r1].status = 500 /\ reqs[r1].awaits = 1
    /\ reqs[r1].id \in DOMAIN parcels
    /\ parcels[reqs[r1].id].payment_status = "paid"
    /\ RecordsFor(reqs[r1].id) = {}
    /\ reqs[r2].pc = "store" /\ reqs[r2].route = PostPayments
    /\ reqs[r2].id = reqs[r1].id

\* C9: no step removes or changes a payment record; a step adds at most
\* one, and it adds one exactly when a POST /payments is answered 201.
C9_PaymentsAppendOnly ==
  [][/\ Len(payments') \in {Len(payments), Len(payments) + 1}
     /\ SubSeq(payments', 1, Len(payments)) = payments
     /\ (Len(payments') = Len(payments) + 1)
        <=> (\E r \in Reqs : /\ reqs'[r].route = PostPayments /\ Steps(r)
                             /\ reqs'[r].pc = "done" /\ reqs'[r].status = 201)]_vars

\* A payment record is still there after its parcel was deleted.
C9_Witness ==
  \E r \in Reqs :
    /\ reqs[r].pc = "done" /\ reqs[r].route = DeleteParcelRoute
    /\ reqs[r].result = <<1>>
    /\ RecordsFor(reqs[r].id) # {}

\* C10: a parcel that stays in the store changes only in the update step of
\* a POST /payments for its id, and then only in payment_status, which
\* becomes "paid"; a paid parcel stays paid.
C10_ParcelMutatedOnlyByPayment ==
  [][\A id \in DOMAIN parcels \cap DOMAIN parcels' :
       /\ parcels'[id] # parcels[id]
          => /\ \E r \in Reqs : /\ reqs[r].route = PostPayments /\ reqs[r].pc = "store"
                                /\ reqs[r].id = id /\ Steps(r)
             /\ parcels'[id] = [parcels[id] EXCEPT !.payment_status = "paid"]
       /\ parcels[id].payment_status = "paid"
          => parcels'[id].payment_status = "paid"]_vars

\* A parcel created unpaid by b@x at time 2 is paid, and a second parcel
\* has been inserted since the payment was answered.
C10_Witness ==
  \E id \in DOMAIN parcels :
    /\ parcels[id] = [created_by |-> "b@x", createdAt |-> 2, payment_status |-> "paid"]
    /\ RecordsFor(id) # {}
    /\ \E r \in Reqs : /\ reqs[r].pc = "done" /\ reqs[r].route = PostParcels
                       /\ reqs[r].status = 201 /\ reqs[r].result # <<id>>

====
